---- MODULE Spec2Model ----
(***************************************************************************)
(* Inventory manager (inventory_manager.py) and its Flask routes (app.py). *)
(*                                                                         *)
(* Strings are sequences of one-character strings, so that formatting      *)
(* (f"ITM{n:03d}"), parsing (int(code[3:]), float(form value)) and case    *)
(* normalisation (upper, lower, strip) are computed and not assumed.       *)
(* A float is a record [nan, val]: val is the number, nan marks IEEE NaN,  *)
(* for which every ordered comparison is false.  An Optional argument is   *)
(* a record [some, v].  A Product object is a record; its identity is its  *)
(* position in the inventory list.                                         *)
(***************************************************************************)
EXTENDS Integers, Sequences, FiniteSets, TLC

VARIABLES
    inventory,  \* the in-memory list of Product (app.py: module-level inventory)
    file,       \* inventory_data.json: <<>> when absent, else <<list of dicts>>
    call,       \* the operation performed by the last step, with its arguments
    ret,        \* what that operation returned
    issued,     \* every item_code a successful add_product has returned so far
    budget      \* number of calls the run may still make

vars == <<inventory, file, call, ret, issued, budget>>

\* ---------------------------------------------------------------- bounds

MaxCalls == 3

SampledCalls == 2

\* ------------------------------------------------------------- characters

Digits == <<"0", "1", "2", "3", "4", "5", "6", "7", "8", "9">>

IsDigit(c) == \E i \in 1..10 : Digits[i] = c

DigitVal(c) == (CHOOSE i \in 1..10 : Digits[i] = c) - 1

LowerCase == <<"a", "b", "c", "i", "m", "n", "t", "x">>

UpperCase == <<"A", "B", "C", "I", "M", "N", "T", "X">>

upper_char(c) ==
    IF \E i \in 1..Len(LowerCase) : LowerCase[i] = c
    THEN UpperCase[CHOOSE i \in 1..Len(LowerCase) : LowerCase[i] = c]
    ELSE c

lower_char(c) ==
    IF \E i \in 1..Len(UpperCase) : UpperCase[i] = c
    THEN LowerCase[CHOOSE i \in 1..Len(UpperCase) : UpperCase[i] = c]
    ELSE c

\* str.upper(), str.lower()
upper(s) == [i \in 1..Len(s) |-> upper_char(s[i])]

lower(s) == [i \in 1..Len(s) |-> lower_char(s[i])]

\* str.strip(): leading and trailing whitespace removed
RECURSIVE lstrip(_)
lstrip(s) == IF Len(s) > 0 /\ s[1] = " " THEN lstrip(Tail(s)) ELSE s

RECURSIVE rstrip(_)
rstrip(s) ==
    IF Len(s) > 0 /\ s[Len(s)] = " " THEN rstrip(SubSeq(s, 1, Len(s) - 1)) ELSE s

strip(s) == rstrip(lstrip(s))

\* str.startswith(prefix)
startswith(s, prefix) ==
    Len(s) >= Len(prefix) /\ SubSeq(s, 1, Len(prefix)) = prefix

\* s[3:]
slice_from_3(s) == SubSeq(s, 4, Len(s))

\* int(s) of a string of decimal digits (every stored code is ITM followed by
\* digits, so the ValueError of int() on other strings does not arise)
RECURSIVE int_of_digits(_)
int_of_digits(s) ==
    IF Len(s) = 0 THEN 0
    ELSE 10 * int_of_digits(SubSeq(s, 1, Len(s) - 1)) + DigitVal(s[Len(s)])

\* the decimal digits of n >= 0, without padding
RECURSIVE format_d(_)
format_d(n) ==
    IF n < 10 THEN <<Digits[n + 1]>>
    ELSE format_d(n \div 10) \o <<Digits[(n % 10) + 1]>>

\* f"{n:03d}": zeros on the left up to a width of at least 3
format_03d(n) ==
    LET d == format_d(n)
    IN  IF Len(d) >= 3 THEN d ELSE [i \in 1..(3 - Len(d)) |-> "0"] \o d

ITM == <<"I", "T", "M">>

\* ------------------------------------------------------------------ floats

Float(v) == [nan |-> FALSE, val |-> v]

NaN == [nan |-> TRUE, val |-> 0]

\* x <= 0, x > 0 on floats: false when x is NaN
float_le_0(x) == ~x.nan /\ x.val <= 0

float_gt_0(x) == ~x.nan /\ x.val > 0

None == [some |-> FALSE, v |-> 0]

NoneFloat == [some |-> FALSE, v |-> Float(0)]

Some(v) == [some |-> TRUE, v |-> v]

\* --------------------------------------------------------------- Product

Product(name, price, stock, item_code) ==
    [name |-> name, price |-> price, stock |-> stock, item_code |-> item_code]

to_dict(p) ==
    [name |-> p.name, price |-> p.price, stock |-> p.stock, item_code |-> p.item_code]

\* ---------------------------------------------------- inventory_manager

Max(S) == CHOOSE m \in S : \A k \in S : k <= m

\* (variant: the number of codes plus one, as len(codes) + 1)
new_num_count(codes) == Cardinality(codes) + 1

\* new_num = max(codes) + 1 if codes else 1
new_num(codes) == IF codes # {} THEN Max(codes) + 1 ELSE 1

generate_item_code(inv) ==
    IF Len(inv) = 0 THEN ITM \o <<"0", "0", "1">>
    ELSE LET codes == {int_of_digits(slice_from_3(inv[i].item_code)) :
                          i \in {j \in 1..Len(inv) : startswith(inv[j].item_code, ITM)}}
         IN  ITM \o format_03d(new_num(codes))

\* next((p for p in inventory if ...), None): the first index among the
\* matching ones, 0 for None
first_index(matching) ==
    IF matching = {} THEN 0 ELSE CHOOSE i \in matching : \A j \in matching : i <= j

find_product(inv, item_code) ==
    first_index({i \in 1..Len(inv) : inv[i].item_code = strip(upper(item_code))})

\* (variant: names compared as written)
get_product_by_name_exact(inv, name) ==
    first_index({i \in 1..Len(inv) : inv[i].name = name})

get_product_by_name(inv, name) ==
    first_index({i \in 1..Len(inv) : lower(inv[i].name) = lower(name)})

\* (variant: the last element is dropped, as by list.pop())
remove_last(inv, i) == SubSeq(inv, 1, Len(inv) - 1)

\* list.remove(product): the list without the element at index i
remove(inv, i) == SubSeq(inv, 1, i - 1) \o SubSeq(inv, i + 1, Len(inv))

\* (variant: price < 0 in place of price <= 0)
add_invalid_strict(price, stock) == (~price.nan /\ price.val < 0) \/ stock < 0

\* add_product, line 79: price <= 0 or stock < 0
add_invalid(price, stock) == float_le_0(price) \/ stock < 0

\* add_product: [ok, item, inv]: the product returned (<<>> for None) and the list after
add_product(inv, name, price, stock) ==
    IF add_invalid(price, stock)
    THEN [ok |-> FALSE, item |-> <<>>, inv |-> inv]
    ELSE IF get_product_by_name(inv, name) # 0
    THEN [ok |-> FALSE, item |-> <<>>, inv |-> inv]
    ELSE LET new_product == Product(name, price, stock, generate_item_code(inv))
         IN  [ok |-> TRUE, item |-> <<new_product>>, inv |-> Append(inv, new_product)]

\* (variant: the stock of every product is written)
set_stock_all(inv, i, new_stock) ==
    [j \in 1..Len(inv) |-> [inv[j] EXCEPT !.stock = new_stock]]

\* update_product_details, lines 100 and 104: the write of one field
set_stock(inv, i, new_stock) == [inv EXCEPT ![i].stock = new_stock]

set_price(inv, i, new_price) == [inv EXCEPT ![i].price = new_price]

\* update_product_details: [ok, inv]
update_product_details(inv, item_code, new_stock, new_price) ==
    LET i == find_product(inv, item_code)
    IN  IF i = 0 THEN [ok |-> FALSE, inv |-> inv]
        ELSE IF new_stock.some /\ new_stock.v < 0 THEN [ok |-> FALSE, inv |-> inv]
        ELSE LET inv1 == IF new_stock.some THEN set_stock(inv, i, new_stock.v) ELSE inv
             IN  IF new_price.some /\ float_le_0(new_price.v)
                 THEN [ok |-> FALSE, inv |-> inv1]
                 ELSE [ok |-> TRUE,
                       inv |-> IF new_price.some THEN set_price(inv1, i, new_price.v)
                               ELSE inv1]

\* delete_product: [ok, inv]
delete_product(inv, item_code) ==
    LET i == find_product(inv, item_code)
    IN  IF i # 0 THEN [ok |-> TRUE, inv |-> remove(inv, i)]
        ELSE [ok |-> FALSE, inv |-> inv]

\* ------------------------------------------------------------ persistence

\* save_inventory: the file after a successful write
save_inventory(inv, f) == <<[i \in 1..Len(inv) |-> to_dict(inv[i])]>>

\* load_inventory: [] when the file is absent, else one Product per dict
load_inventory(f) ==
    IF f = <<>> THEN <<>>
    ELSE [i \in 1..Len(f[1]) |->
            Product(f[1][i].name, f[1][i].price, f[1][i].stock, f[1][i].item_code)]

\* ------------------------------------------------- form values (app.py)

IsDigits(s) == Len(s) > 0 /\ \A i \in 1..Len(s) : IsDigit(s[i])

\* int(s) of a form value: [ok, v], ok false for ValueError
py_int(s) ==
    LET t == strip(s)
    IN  IF IsDigits(t) THEN [ok |-> TRUE, v |-> int_of_digits(t)]
        ELSE IF Len(t) > 1 /\ t[1] = "-" /\ IsDigits(Tail(t))
        THEN [ok |-> TRUE, v |-> 0 - int_of_digits(Tail(t))]
        ELSE [ok |-> FALSE, v |-> 0]

\* float(s) of a form value: [ok, v], ok false for ValueError
py_float(s) ==
    LET t == strip(s)
    IN  IF lower(t) = <<"n", "a", "n">> THEN [ok |-> TRUE, v |-> NaN]
        ELSE [ok |-> py_int(t).ok, v |-> Float(py_int(t).v)]

\* ------------------------------------------------------------ the inputs

Names == {<<"a">>, <<"A">>, <<"b">>}

Prices == {Float(0), Float(1), Float(2), NaN}

Stocks == {0 - 1, 0, 1}

OptStocks == {None} \cup {Some(s) : s \in Stocks}

OptPrices == {NoneFloat} \cup {Some(p) : p \in Prices}

\* item codes a caller may pass: every code present, the first one in lower
\* case between spaces, and one that no product ever has
CodeArgs(inv) ==
    {inv[i].item_code : i \in 1..Len(inv)}
    \cup (IF Len(inv) = 0 THEN {} ELSE {<<" ">> \o lower(inv[1].item_code) \o <<" ">>})
    \cup {ITM \o <<"0", "0", "0">>}

FormNames == {<<"a">>, <<" ", "A", " ">>, <<"b">>}

FormPrices == {<<>>, <<"0">>, <<"1">>, <<"2">>, <<"n", "a", "n">>, <<"x">>}

FormStocks == {<<>>, <<"-", "1">>, <<"0">>, <<" ", "1">>, <<"x">>}

Methods == {"GET", "POST"}

\* ------------------------------------------------------------- the state

NoCall ==
    [op |-> "none", name |-> <<>>, price |-> Float(0), stock |-> 0,
     item_code |-> <<>>, new_stock |-> None, new_price |-> NoneFloat,
     method |-> "", form_name |-> <<>>, form_price |-> <<>>, form_stock |-> <<>>]

NoRet == [ok |-> FALSE, item |-> <<>>, code |-> <<>>]

\* app.py line 10 with no data file yet
Init ==
    /\ file = <<>>
    /\ inventory = load_inventory(file)
    /\ call = NoCall
    /\ ret = NoRet
    /\ issued = {}
    /\ budget = MaxCalls

Spend == budget > 0 /\ budget' = budget - 1

Issue(r) == issued' = IF r.ok THEN issued \cup {r.item[1].item_code} ELSE issued

\* --------------------------------------- calls of inventory_manager

generate_item_code_call ==
    /\ Spend
    /\ call' = [NoCall EXCEPT !.op = "generate"]
    /\ ret' = [NoRet EXCEPT !.ok = TRUE, !.code = generate_item_code(inventory)]
    /\ UNCHANGED <<inventory, file, issued>>

add_product_call ==
    \E name \in Names, price \in Prices, stock \in Stocks :
        LET r == add_product(inventory, name, price, stock)
        IN  /\ Spend
            /\ call' = [NoCall EXCEPT !.op = "add", !.name = name,
                                      !.price = price, !.stock = stock]
            /\ ret' = [NoRet EXCEPT !.ok = r.ok, !.item = r.item]
            /\ inventory' = r.inv
            /\ Issue(r)
            /\ UNCHANGED file

update_product_details_call ==
    \E item_code \in CodeArgs(inventory), new_stock \in OptStocks, new_price \in OptPrices :
        LET r == update_product_details(inventory, item_code, new_stock, new_price)
        IN  /\ Spend
            /\ call' = [NoCall EXCEPT !.op = "update", !.item_code = item_code,
                                      !.new_stock = new_stock, !.new_price = new_price]
            /\ ret' = [NoRet EXCEPT !.ok = r.ok]
            /\ inventory' = r.inv
            /\ UNCHANGED <<file, issued>>

delete_product_call ==
    \E item_code \in CodeArgs(inventory) :
        LET r == delete_product(inventory, item_code)
        IN  /\ Spend
            /\ call' = [NoCall EXCEPT !.op = "delete", !.item_code = item_code]
            /\ ret' = [NoRet EXCEPT !.ok = r.ok]
            /\ inventory' = r.inv
            /\ UNCHANGED <<file, issued>>

Next ==
    \/ generate_item_code_call
    \/ add_product_call
    \/ update_product_details_call
    \/ delete_product_call

Spec == Init /\ [][Next]_vars

\* ------------------------------------------------------- routes of app.py

\* add_product_route: [ok, item, inv, file]
add_product_route(inv, f, method, form_name, form_price, form_stock) ==
    LET name == strip(form_name)
        price == py_float(form_price)
        stock == py_int(form_stock)
        r == add_product(inv, name, price.v, stock.v)
    IN  IF method # "POST" \/ ~price.ok \/ ~stock.ok
        THEN [ok |-> FALSE, item |-> <<>>, inv |-> inv, file |-> f]
        ELSE IF r.ok
        THEN [ok |-> TRUE, item |-> r.item, inv |-> r.inv, file |-> save_inventory(r.inv, f)]
        ELSE [ok |-> FALSE, item |-> <<>>, inv |-> inv, file |-> f]

\* update_product_route: [ok, inv, file]
update_product_route(inv, f, item_code, method, form_stock, form_price) ==
    LET new_stock_input == strip(form_stock)
        stock_value == IF new_stock_input # <<>> THEN Some(py_int(new_stock_input).v) ELSE None
        new_price_input == strip(form_price)
        price_value == IF new_price_input # <<>> THEN Some(py_float(new_price_input).v)
                       ELSE NoneFloat
        ValueError == \/ new_stock_input # <<>> /\ ~py_int(new_stock_input).ok
                      \/ new_price_input # <<>> /\ ~py_float(new_price_input).ok
        r == update_product_details(inv, item_code, stock_value, price_value)
    IN  IF find_product(inv, item_code) = 0 \/ method # "POST" \/ ValueError
        THEN [ok |-> FALSE, inv |-> inv, file |-> f]
        ELSE IF r.ok
        THEN [ok |-> TRUE, inv |-> r.inv, file |-> save_inventory(r.inv, f)]
        ELSE [ok |-> FALSE, inv |-> r.inv, file |-> f]

\* delete_product_route: [ok, inv, file]
delete_product_route(inv, f, item_code) ==
    LET r == delete_product(inv, item_code)
    IN  IF r.ok THEN [ok |-> TRUE, inv |-> r.inv, file |-> save_inventory(r.inv, f)]
        ELSE [ok |-> FALSE, inv |-> r.inv, file |-> f]

add_product_request ==
    \E method \in Methods, form_name \in FormNames, form_price \in FormPrices,
       form_stock \in FormStocks :
        LET r == add_product_route(inventory, file, method, form_name, form_price, form_stock)
        IN  /\ Spend
            /\ method = "GET" => form_name = <<"a">> /\ form_price = <<>> /\ form_stock = <<>>
            /\ call' = [NoCall EXCEPT !.op = "add_route", !.method = method,
                                      !.form_name = form_name, !.form_price = form_price,
                                      !.form_stock = form_stock]
            /\ ret' = [NoRet EXCEPT !.ok = r.ok, !.item = r.item]
            /\ inventory' = r.inv
            /\ file' = r.file
            /\ Issue(r)

update_product_request ==
    \E item_code \in CodeArgs(inventory), method \in Methods, form_stock \in FormStocks,
       form_price \in FormPrices :
        LET r == update_product_route(inventory, file, item_code, method, form_stock, form_price)
        IN  /\ Spend
            /\ method = "GET" => form_price = <<>> /\ form_stock = <<>>
            /\ call' = [NoCall EXCEPT !.op = "update_route", !.method = method,
                                      !.item_code = item_code, !.form_price = form_price,
                                      !.form_stock = form_stock]
            /\ ret' = [NoRet EXCEPT !.ok = r.ok]
            /\ inventory' = r.inv
            /\ file' = r.file
            /\ UNCHANGED issued

delete_product_request ==
    \E item_code \in CodeArgs(inventory) :
        LET r == delete_product_route(inventory, file, item_code)
        IN  /\ Spend
            /\ call' = [NoCall EXCEPT !.op = "delete_route", !.item_code = item_code]
            /\ ret' = [NoRet EXCEPT !.ok = r.ok]
            /\ inventory' = r.inv
            /\ file' = r.file
            /\ UNCHANGED issued

NextApp ==
    \/ add_product_request
    \/ update_product_request
    \/ delete_product_request

SpecApp == Init /\ [][NextApp]_vars

\* ------------------------------------------- runs from a later inventory

\* Inventories that runs from the empty one reach: codes ascend along the list
\* (each add appends max + 1, delete keeps the order) and names are distinct.
\* [ITM999] is reached by add a, add b, delete ITM001, add a, delete ITM002, ...:
\* each add/delete pair raises the only code by one.
SampleNames == <<<<"a">>, <<"b">>, <<"c">>>>

SampleCodes == {<< >>, <<2>>, <<1, 3>>, <<2, 3, 5>>, <<99>>, <<998>>, <<999>>, <<1, 999>>}

SampleInventory(nums) ==
    [i \in 1..Len(nums) |-> Product(SampleNames[i], Float(1), 1, ITM \o format_03d(nums[i]))]

InitSampled ==
    /\ file = <<>>
    /\ \E nums \in SampleCodes : inventory = SampleInventory(nums)
    /\ call = NoCall
    /\ ret = NoRet
    /\ issued = {inventory[i].item_code : i \in 1..Len(inventory)}
    /\ budget = SampledCalls

SpecSampled == InitSampled /\ [][Next]_vars

\* =================================================================== claims

\* the step taken is a call of op (stuttering steps are no calls)
Called(op) == call'.op = op

ItemCodes(inv) == {inv[i].item_code : i \in 1..Len(inv)}

\* two strings equal up to letter case
SameIgnoringCase(s, t) ==
    /\ Len(s) = Len(t)
    /\ \A i \in 1..Len(s) : s[i] = t[i] \/ upper_char(s[i]) = t[i] \/ s[i] = upper_char(t[i])

NameTaken(inv, name) == \E i \in 1..Len(inv) : SameIgnoringCase(inv[i].name, name)

\* ITM followed by exactly three decimal digits
IsITM3(code) ==
    /\ Len(code) = 6
    /\ SubSeq(code, 1, 3) = ITM
    /\ \A i \in 4..6 : IsDigit(code[i])

\* the number a string of digits denotes, read from the left
RECURSIVE Pow10(_)
Pow10(k) == IF k = 0 THEN 1 ELSE 10 * Pow10(k - 1)

RECURSIVE DecimalValue(_)
DecimalValue(s) ==
    IF s = <<>> THEN 0
    ELSE DigitVal(Head(s)) * Pow10(Len(s) - 1) + DecimalValue(Tail(s))

Suffix(code) == SubSeq(code, 4, Len(code))

\* a caller's code names product p (find_product ignores case and outer spaces)
Designates(p, item_code) == p.item_code = strip(upper(item_code))

ValidProduct(p) == float_gt_0(p.price) /\ p.stock >= 0

\* C1: add_product with price > 0, stock >= 0 and a name no product has (in any
\* letter case) returns a new product, appends it as the last element, and its
\* item_code is ITM followed by a 3-digit number that no other product has.
C1_AddValidSucceeds ==
    [][(/\ Called("add")
        /\ float_gt_0(call'.price)
        /\ call'.stock >= 0
        /\ ~NameTaken(inventory, call'.name))
       => /\ ret'.ok
          /\ Len(ret'.item) = 1
          /\ ret'.item[1].name = call'.name
          /\ ret'.item[1].price = call'.price
          /\ ret'.item[1].stock = call'.stock
          /\ inventory' = Append(inventory, ret'.item[1])
          /\ IsITM3(ret'.item[1].item_code)
          /\ ret'.item[1].item_code \notin ItemCodes(inventory)]_vars

\* C2: the item_code a successful add_product assigns differs from every
\* item_code an earlier successful add_product assigned, deleted ones included.
C2_CodeNeverReused ==
    [][(Called("add") /\ ret'.ok) => ret'.item[1].item_code \notin issued]_vars

\* C3: when update_product_details returns False, no field of any product has
\* changed.
C3_FailedUpdateChangesNothing ==
    [][(Called("update") /\ ~ret'.ok) => inventory' = inventory]_vars

\* C4: when a route handler has finished, the persisted snapshot holds the same
\* records, field values and order as the in-memory inventory.
C4_SnapshotMatchesMemory ==
    call.op \in {"add_route", "update_route", "delete_route"}
        => load_inventory(file) = inventory

\* C5: no two products have the same item_code, and no two products have names
\* that are equal ignoring case.
C5_UniqueCodesAndNames ==
    \A i, j \in 1..Len(inventory) :
        i # j => /\ inventory[i].item_code # inventory[j].item_code
                 /\ ~SameIgnoringCase(inventory[i].name, inventory[j].name)

\* a second product exists and an add of a name differing only in case was refused
C5_Witness ==
    /\ Len(inventory) = 2
    /\ call.op = "add"
    /\ ~ret.ok
    /\ float_gt_0(call.price) /\ call.stock >= 0
    /\ \A i \in 1..Len(inventory) : inventory[i].name # call.name

\* C6: add_product with price <= 0, or stock < 0, or the name of an existing
\* product in any letter case, returns None and leaves the inventory unchanged.
C6_InvalidAddRejected ==
    [][(/\ Called("add")
        /\ \/ float_le_0(call'.price)
           \/ call'.stock < 0
           \/ NameTaken(inventory, call'.name))
       => ~ret'.ok /\ ret'.item = <<>> /\ inventory' = inventory]_vars

\* an add with price 0 and a fresh name was refused on a non-empty inventory
C6_Witness ==
    /\ call.op = "add"
    /\ call.price = Float(0)
    /\ call.stock >= 0
    /\ ~ret.ok
    /\ Len(inventory) >= 1
    /\ ~NameTaken(inventory, call.name)

\* C7: every product of every reachable inventory has price > 0 and stock >= 0.
C7_PricePositiveStockNonNegative ==
    \A i \in 1..Len(inventory) : ValidProduct(inventory[i])

\* C8: delete_product with a code that names no product returns False and leaves
\* the inventory unchanged; with a code that names a product it returns True and
\* removes exactly that product, the others keeping their fields and order.
C8_DeleteRemovesExactlyOne ==
    [][Called("delete")
       => IF \A i \in 1..Len(inventory) : ~Designates(inventory[i], call'.item_code)
          THEN ~ret'.ok /\ inventory' = inventory
          ELSE /\ ret'.ok
               /\ \E i \in 1..Len(inventory) :
                    /\ Designates(inventory[i], call'.item_code)
                    /\ Len(inventory') = Len(inventory) - 1
                    /\ \A j \in 1..Len(inventory') :
                         inventory'[j] = IF j < i THEN inventory[j] ELSE inventory[j + 1]]_vars

\* the middle one of three products was deleted
C8_Witness ==
    /\ call.op = "delete"
    /\ ret.ok
    /\ call.item_code = <<"I", "T", "M", "0", "0", "3">>
    /\ Len(inventory) = 2
    /\ inventory[1].item_code = ITM \o <<"0", "0", "2">>
    /\ inventory[2].item_code = ITM \o <<"0", "0", "5">>

\* C9: a successful update_product_details changes only the provided fields of
\* only the product named: an omitted stock or price keeps its value, name and
\* item_code stay, and so do every other product and the order.
C9_UpdateFrame ==
    [][(Called("update") /\ ret'.ok)
       => /\ Len(inventory') = Len(inventory)
          /\ \E i \in 1..Len(inventory) :
               /\ Designates(inventory[i], call'.item_code)
               /\ \A j \in 1..Len(inventory) : j # i => inventory'[j] = inventory[j]
               /\ inventory'[i].name = inventory[i].name
               /\ inventory'[i].item_code = inventory[i].item_code
               /\ inventory'[i].stock = IF call'.new_stock.some THEN call'.new_stock.v
                                        ELSE inventory[i].stock
               /\ inventory'[i].price = IF call'.new_price.some THEN call'.new_price.v
                                        ELSE inventory[i].price]_vars

\* with two products, only the stock of the first was given and has changed
C9_Witness ==
    /\ call.op = "update"
    /\ ret.ok
    /\ call.new_stock = Some(0) /\ ~call.new_price.some
    /\ Len(inventory) = 2
    /\ Designates(inventory[1], call.item_code)
    /\ inventory[1].stock = 0 /\ inventory[2].stock = 1
    /\ inventory[1].price = Float(2)

\* C10: generate_item_code returns ITM001 for an empty inventory, and otherwise
\* ITM followed by the largest numeric suffix of the existing codes plus one,
\* padded with zeros to three digits; it does not modify the inventory.
C10_GenerateIsMaxPlusOne ==
    [][Called("generate")
       => /\ inventory' = inventory
          /\ IF Len(inventory) = 0 THEN ret'.code = <<"I", "T", "M", "0", "0", "1">>
             ELSE LET c == ret'.code
                      d == Suffix(c)
                  IN  /\ SubSeq(c, 1, 3) = ITM
                      /\ Len(d) >= 3
                      /\ \A i \in 1..Len(d) : IsDigit(d[i])
                      /\ Len(d) > 3 => d[1] # "0"
                      /\ \E i \in 1..Len(inventory) :
                           DecimalValue(d) = DecimalValue(Suffix(inventory[i].item_code)) + 1
                      /\ \A i \in 1..Len(inventory) :
                           DecimalValue(d) > DecimalValue(Suffix(inventory[i].item_code))]_vars

\* codes ITM001 and ITM003 gave ITM004: the gap at 2 is not filled
C10_Witness ==
    /\ call.op = "generate"
    /\ Len(inventory) = 2
    /\ inventory[1].item_code = <<"I", "T", "M", "0", "0", "1">>
    /\ inventory[2].item_code = <<"I", "T", "M", "0", "0", "3">>
    /\ ret.code = <<"I", "T", "M", "0", "0", "4">>

====
